---- MODULE Spec2Model ----
(***************************************************************************)
(* Model of llm_tools_imagemage.py: generate_image and its helpers.        *)
(*                                                                         *)
(* Strings are sequences of tokens.  A token is a run of characters that   *)
(* the code never looks inside ("a", "png", "http://", "Saved to: "), or a *)
(* single character the code splits or matches on (",", " ", ".", "/",     *)
(* "?", "#", "\n").  Concatenation of strings is \o of token sequences.    *)
(***************************************************************************)
EXTENDS Integers, Sequences, FiniteSets, TLC

\* ------------------------------------------------------------------ bounds
MaxImg == 3     \* tokens in input_images
MaxUrl == 4     \* tokens of a URL after its scheme
MaxCt == 1      \* tokens of a Content-Type header

\* ----------------------------------------------------------- string helpers
None == <<"<None>">>

SeqsUpTo(S, n) == UNION {[1..k -> S] : k \in 0..n}

RECURSIVE Lower(_)
\* str.lower(), token by token
LowerTok(t) ==
    CASE t = "JPG" -> "jpg"
      [] t = "PNG" -> "png"
      [] t = "SAVED TO: " -> "saved to: "
      [] t = "Saved to: " -> "saved to: "
      [] OTHER -> t
Lower(s) == IF s = <<>> THEN <<>> ELSE <<LowerTok(Head(s))>> \o Lower(Tail(s))

\* s.split(sep)[0]: the part of s before the first occurrence of the character sep
SplitFirst(s, sep) ==
    IF \E k \in 1..Len(s) : s[k] = sep
    THEN SubSeq(s, 1, (CHOOSE k \in 1..Len(s) : s[k] = sep /\ \A j \in 1..(k-1) : s[j] # sep) - 1)
    ELSE s

\* tokens whose last character is '/'
SlashTok == {"/", "http://", "https://", "file://"}

\* s.rfind(c) for a set of tokens ending in c; 0 plays the role of -1
RFind(s, toks) ==
    IF \E k \in 1..Len(s) : s[k] \in toks
    THEN CHOOSE k \in 1..Len(s) : s[k] \in toks /\ \A j \in (k+1)..Len(s) : s[j] \notin toks
    ELSE 0

\* os.path.splitext(p)[1]: from the last dot of the last path component, unless
\* that component consists of leading dots only up to that dot
SplitExt(p) ==
    LET sepIndex == RFind(p, SlashTok)
        dotIndex == RFind(p, {"."})
    IN  IF dotIndex > sepIndex /\ (\E k \in (sepIndex+1)..(dotIndex-1) : p[k] # ".")
        THEN SubSeq(p, dotIndex, Len(p))
        ELSE <<>>

\* str.strip() on tokens: the whitespace tokens are " " and "\n"
WhiteTok == {" ", "\n"}
RECURSIVE LStrip(_)
LStrip(s) == IF s # <<>> /\ Head(s) \in WhiteTok THEN LStrip(Tail(s)) ELSE s
RECURSIVE RStrip(_)
RStrip(s) == IF s # <<>> /\ s[Len(s)] \in WhiteTok THEN RStrip(SubSeq(s, 1, Len(s)-1)) ELSE s
Strip(s) == RStrip(LStrip(s))

\* s.split(","): the pieces between commas, empty pieces included
RECURSIVE SplitComma(_)
SplitComma(s) ==
    IF \E k \in 1..Len(s) : s[k] = ","
    THEN LET k == CHOOSE k \in 1..Len(s) : s[k] = "," /\ \A j \in 1..(k-1) : s[j] # ","
         IN  <<SubSeq(s, 1, k-1)>> \o SplitComma(SubSeq(s, k+1, Len(s)))
    ELSE <<s>>

SelectNonEmpty(ss) == SelectSeq(ss, LAMBDA p : p # <<>>)
RECURSIVE MapStrip(_)
MapStrip(ss) == IF ss = <<>> THEN <<>> ELSE <<Strip(Head(ss))>> \o MapStrip(Tail(ss))

\* [p.strip() for p in input_images.split(",") if p.strip()]
ImageSources(input_images) == SelectNonEmpty(MapStrip(SplitComma(input_images)))

\* ---------------------------------------------------- _download_url_to_temp
KnownExt == {<<".", "png">>, <<".", "jpg">>, <<".", "jpeg">>, <<".", "webp">>,
             <<".", "gif">>, <<".", "bmp">>}

\* lines 24-29: the suffix of the first temporary file
UrlExt(url) ==
    LET url_path == SplitFirst(SplitFirst(url, "?"), "#")
        ext == Lower(SplitExt(url_path))
    IN  IF ext \notin KnownExt THEN <<".", "png">> ELSE ext

\* lines 43-48, in the dict's iteration order
type_to_ext == << <<"image/jpeg", <<".", "jpg">> >>, <<"image/png", <<".", "png">> >>,
                  <<"image/webp", <<".", "webp">> >>, <<"image/gif", <<".", "gif">> >> >>

\* `mime in content_type`: the header is a sequence of media-type/parameter tokens
MimeIn(mime, content_type) == \E k \in 1..Len(content_type) : content_type[k] = mime

\* lines 41-50: the suffix of the replacement file, or None when no replacement is made
DetectedExt(ext, content_type) ==
    IF ext = <<".", "png">> /\ content_type # <<>>
          /\ \E m \in 1..Len(type_to_ext) : MimeIn(type_to_ext[m][1], content_type)
    THEN type_to_ext[CHOOSE m \in 1..Len(type_to_ext) :
                        /\ MimeIn(type_to_ext[m][1], content_type)
                        /\ \A j \in 1..(m-1) : ~MimeIn(type_to_ext[j][1], content_type)][2]
    ELSE None

\* ------------------------------------------------------ the file system
\* a file: its bytes and whether open(path, "rb") succeeds on it
File(bytes, readable) == [bytes |-> bytes, readable |-> readable]

\* os.unlink(p) on the map of existing files
Unlink(fs, p) == [q \in (DOMAIN fs) \ {p} |-> fs[q]]

\* writing (creating or replacing) the file p
WriteFile(fs, p, f) == [q \in (DOMAIN fs) \cup {p} |-> IF q = p THEN f ELSE fs[q]]

\* os.path.isfile(p)
IsFile(fs, p) == p \in DOMAIN fs

Range(s) == {s[k] : k \in 1..Len(s)}

\* _cleanup_temp_files, lines 82-88: unlink each, a failing unlink is ignored
_cleanup_temp_files(fs, tfs) == [q \in (DOMAIN fs) \ Range(tfs) |-> fs[q]]

\* tempfile.NamedTemporaryFile(suffix=ext, delete=False): a name no file has had so far
TmpTok == <<"/tmp/t1", "/tmp/t2", "/tmp/t3", "/tmp/t4", "/tmp/t5", "/tmp/t6",
            "/tmp/t7", "/tmp/t8", "/tmp/t9", "/tmp/t10", "/tmp/t11", "/tmp/t12">>
NamedTemporaryFile(made, suffix) == <<TmpTok[Cardinality(made) + 1]>> \o suffix

\* what the download can meet: no temporary file can be made, urlopen raises,
\* response.read() raises, or everything works
DownloadOutcomes == {"mktemp_error", "urlopen_error", "read_error", "ok"}

\* _download_url_to_temp, lines 17-58, on the file system fs; made is the set of
\* temporary names handed out so far.  The result: the returned path (None when an
\* exception leaves the function), the file system, the names handed out and the
\* paths unlinked by line 53.
_download_url_to_temp(url, content_type, outcome, fs, made) ==
    LET ext == UrlExt(url)
        tmp == NamedTemporaryFile(made, ext)
        fs1 == WriteFile(fs, tmp, File("", TRUE))
        made1 == made \cup {tmp}
        detected_ext == DetectedExt(ext, content_type)
        tmp2 == NamedTemporaryFile(made1, detected_ext)
        fs2 == WriteFile(Unlink(fs1, tmp), tmp2, File("", TRUE))
        made2 == made1 \cup {tmp2}
    IN  CASE outcome = "mktemp_error" ->
               [path |-> None, fs |-> fs, made |-> made, unlinked |-> {}]
          [] outcome = "urlopen_error" ->
               [path |-> None, fs |-> fs1, made |-> made1, unlinked |-> {}]
          [] outcome = "read_error" /\ detected_ext # None ->
               [path |-> None, fs |-> fs2, made |-> made2, unlinked |-> {tmp}]
          [] outcome = "read_error" /\ detected_ext = None ->
               [path |-> None, fs |-> fs1, made |-> made1, unlinked |-> {}]
          [] outcome = "ok" /\ detected_ext # None ->
               [path |-> tmp2, fs |-> WriteFile(fs2, tmp2, File("body", TRUE)),
                made |-> made2, unlinked |-> {tmp}]
          [] OTHER ->
               [path |-> tmp, fs |-> WriteFile(fs1, tmp, File("body", TRUE)),
                made |-> made1, unlinked |-> {}]

\* -------------------------------------------------------- _resolve_image_path
StartsWith(s, toks) == s # <<>> /\ Head(s) \in toks

\* line 72
IsRemote(path_or_url) == StartsWith(path_or_url, {"http://", "https://"})

\* lines 75-79: the local path of an input that is not downloaded
LocalPath(path_or_url) ==
    IF StartsWith(path_or_url, {"file://"}) THEN Tail(path_or_url) ELSE path_or_url

\* the local path is returned as the temporary file as well
TempFileOf_always(path_or_url, local_path) == local_path

\* lines 72-79: the second component of the returned pair
TempFileOf(path_or_url, local_path) == IF IsRemote(path_or_url) THEN local_path ELSE None

\* ------------------------------------------------------------ command line
\* '--frugal' is appended after the resolution instead of in its place
TierFlags_both(model, resolution) ==
    << <<"-r">>, IF resolution # <<>> THEN resolution ELSE <<"2K">> >>
    \o (IF model = <<"flash">> THEN << <<"--frugal">> >> ELSE <<>>)

\* lines 289-294
TierFlags(model, resolution) ==
    IF model # <<"flash">>
    THEN << <<"-r">>, IF resolution # <<>> THEN resolution ELSE <<"2K">> >>
    ELSE << <<"--frugal">> >>

RECURSIVE ExtraImages(_)
\* lines 276-277
ExtraImages(imgs) ==
    IF imgs = <<>> THEN <<>> ELSE << <<"-i">>, Head(imgs) >> \o ExtraImages(Tail(imgs))

\* lines 272-298
BuildCmd(a, resolved) ==
    (IF a.mode = <<"edit">>
     THEN << <<"imagemage">>, <<"edit">>, resolved[1], a.prompt >> \o ExtraImages(Tail(resolved))
     ELSE << <<"imagemage">>, <<"generate">>, a.prompt >>)
    \o (IF a.output_path # <<>> THEN << <<"-o">>, a.output_path >> ELSE <<>>)
    \o (IF a.aspect_ratio # <<>> THEN << <<"-a">>, a.aspect_ratio >> ELSE <<>>)
    \o TierFlags(a.model, a.resolution)
    \o (IF a.style # <<>> /\ a.mode # <<"edit">> THEN << <<"-s">>, a.style >> ELSE <<>>)

\* ------------------------------------------------------ output-path extractor
\* re.search(r"Saved to: (.+\.(png|jpg|jpeg|webp))", output, re.IGNORECASE)
ReExt == {"png", "jpg", "jpeg", "webp"}

\* the ends e of a match that starts at token s: "Saved to: ", one or more
\* characters other than newline, a dot, an extension
MatchEnds(output, s) ==
    {e \in (s+3)..Len(output) :
        /\ LowerTok(output[s]) = "saved to: "
        /\ output[e-1] = "."
        /\ LowerTok(output[e]) \in ReExt
        /\ \A k \in (s+1)..e : output[k] # "\n"}

Max(S) == CHOOSE x \in S : \A y \in S : y <= x
Min(S) == CHOOSE x \in S : \A y \in S : x <= y

\* leftmost start, greedy `.+`; None when there is no match
ReSearch(output) ==
    LET starts == {s \in 1..Len(output) : MatchEnds(output, s) # {}}
    IN  IF starts = {} THEN None
        ELSE LET s == Min(starts)
                 e == Max(MatchEnds(output, s))
             IN  <<SubSeq(output, s+1, e), <<output[e]>> >>

\* lines 340-346
MimeType(extension) ==
    CASE extension = <<"png">> -> "image/png"
      [] extension = <<"jpg">> -> "image/jpeg"
      [] extension = <<"jpeg">> -> "image/jpeg"
      [] extension = <<"webp">> -> "image/webp"
      [] OTHER -> "image/png"

\* llm.ToolOutput(text) and llm.ToolOutput(text, attachments=[llm.Attachment(...)])
ToolOutput(text, attachments) == [text |-> text, attachments |-> attachments]
Attachment(content, type) == [content |-> content, type |-> type]

\* ------------------------------------------------------------------ state
VARIABLES
    args,             \* the parameters of the call to generate_image
    which,            \* shutil.which("imagemage") finds the binary
    files,            \* the file system: path -> File
    pc,               \* the position of the call
    image_sources,    \* line 247
    temp_files,       \* line 239
    resolved_images,  \* line 255
    cmd,              \* the command line
    result,           \* the CompletedProcess of subprocess.run
    image_path,       \* line 336
    mime_type,        \* line 346
    returned,         \* the ToolOutputs returned by the call, in order
    raised,           \* an exception left generate_image
    made,             \* temporary files created by _download_url_to_temp
    unlinked,         \* paths on which the call executed os.unlink
    runs,             \* how many times subprocess.run was called
    finished,         \* how many of these calls have ended
    written,          \* the file the binary wrote, or None
    viewer,           \* the xdg-open launches: path and whether Popen succeeded
    url,              \* the argument of a direct call of _download_url_to_temp
    content_type,     \* the Content-Type header its response carries
    tmp_name          \* what that call returned

vars == <<args, which, files, pc, image_sources, temp_files, resolved_images, cmd, result,
          image_path, mime_type, returned, raised, made, unlinked, runs, finished, written,
          viewer, url, content_type, tmp_name>>

locals == <<image_sources, temp_files, resolved_images, cmd, result, image_path, mime_type>>
direct == <<url, content_type, tmp_name>>

\* ---------------------------------------------------------------- the inputs
ImgTok == {",", " ", "http://", "https://", "file://", "a", "b"}
LocalFiles == {<<"a">>, <<"b">>}

Args(mode, input_images, output_path, aspect_ratio, resolution, model, style, auto_open) ==
    [prompt |-> <<"p">>, mode |-> mode, input_images |-> input_images,
     output_path |-> output_path, aspect_ratio |-> aspect_ratio, resolution |-> resolution,
     model |-> model, style |-> style, auto_open |-> auto_open]

\* the calls: every input_images string in edit mode; the defaults of the other
\* parameters, or all of them given
CallArgs ==
    {Args(mode, imgs, o[1], o[2], o[3], o[4], o[5], open) :
        mode \in {<<"edit">>}, imgs \in SeqsUpTo(ImgTok, MaxImg),
        o \in {<< <<>>, <<>>, <<>>, <<"pro">>, <<>> >>,
               << <<"/out">>, <<"16:9">>, <<"4K">>, <<"flash">>, <<"s">> >>},
        open \in BOOLEAN}
    \cup
    {Args(mode, imgs, o[1], o[2], o[3], o[4], o[5], open) :
        mode \in {<<"generate">>}, imgs \in {<<>>, <<"a">>},
        o \in {<< <<>>, <<>>, <<>>, <<"pro">>, <<>> >>,
               << <<"/out">>, <<"16:9">>, <<"4K">>, <<"flash">>, <<"s">> >>},
        open \in BOOLEAN}

InitFiles == {[p \in S |-> File("local", TRUE)] : S \in SUBSET LocalFiles}

NoResult == [returncode |-> -1, stdout |-> <<>>, stderr |-> <<>>]

InitLocals ==
    /\ image_sources = <<>>
    /\ temp_files = <<>>
    /\ resolved_images = <<>>
    /\ cmd = <<>>
    /\ result = NoResult
    /\ image_path = None
    /\ mime_type = ""

InitGhost ==
    /\ returned = <<>>
    /\ raised = FALSE
    /\ made = {}
    /\ unlinked = {}
    /\ runs = 0
    /\ finished = 0
    /\ written = None
    /\ viewer = <<>>

Init ==
    /\ args \in CallArgs
    /\ which \in BOOLEAN
    /\ files \in InitFiles
    /\ pc = "start"
    /\ InitLocals
    /\ InitGhost
    /\ url = <<>>
    /\ content_type = <<>>
    /\ tmp_name = None

\* --------------------------------------------------------------- exceptions
\* the download loop without its try/except
Catches_nodownload(site) == site \in {"run", "viewer", "load"}

\* the places where the code wraps a collaborator in try/except Exception:
\* lines 257-264, 301-316, 98-108, 353-369
Catches(site) == site \in {"download", "run", "viewer", "load"}

\* `return llm.ToolOutput(...)`
Return(out) ==
    /\ returned' = Append(returned, out)
    /\ pc' = "done"
    /\ raised' = raised

\* an exception that no handler catches leaves the call
Escape ==
    /\ raised' = TRUE
    /\ pc' = "done"
    /\ returned' = returned

\* a failure at a site: the handler's return if the site is wrapped
Fail(site, out) == IF Catches(site) THEN Return(out) ELSE Escape

\* ------------------------------------------------------------------ actions
\* lines 229-252
Enter ==
    /\ pc = "start"
    /\ UNCHANGED <<args, which, files, temp_files, resolved_images, cmd, result, image_path,
                   mime_type, made, unlinked, runs, finished, written, viewer, direct>>
    /\ IF ~which
       THEN /\ Return(ToolOutput(<<"Error: imagemage not found in PATH. Install with: ...">>, <<>>))
            /\ UNCHANGED image_sources
       ELSE IF args.mode = <<"edit">>
       THEN IF args.input_images = <<>>
            THEN /\ Return(ToolOutput(
                      <<"Error: edit mode requires input_images parameter with path(s) to image(s)">>,
                      <<>>))
                 /\ UNCHANGED image_sources
            ELSE IF ImageSources(args.input_images) = <<>>
            THEN /\ Return(ToolOutput(
                      <<"Error: edit mode requires at least one image path or URL">>, <<>>))
                 /\ UNCHANGED image_sources
            ELSE /\ image_sources' = ImageSources(args.input_images)
                 /\ pc' = "resolve"
                 /\ UNCHANGED <<returned, raised>>
       ELSE /\ pc' = "build"
            /\ UNCHANGED <<image_sources, returned, raised>>

\* Content-Type headers a server sends for an input image
CtMain == {<<>>, <<"image/jpeg">>}

\* one iteration of the loop of lines 256-264
ResolveOne ==
    /\ pc = "resolve"
    /\ UNCHANGED <<args, which, image_sources, cmd, result, image_path, mime_type, runs,
                   finished, written, viewer, direct>>
    /\ LET img_source == image_sources[Len(resolved_images) + 1]
           last == Len(resolved_images) + 1 = Len(image_sources)
       IN  IF IsRemote(img_source)
           THEN \E ct \in CtMain, outcome \in DownloadOutcomes :
                   LET d == _download_url_to_temp(img_source, ct, outcome, files, made)
                       temp_file == TempFileOf(img_source, d.path)
                   IN  /\ made' = d.made
                       /\ IF d.path = None
                          THEN /\ files' = _cleanup_temp_files(d.fs, temp_files)
                               /\ unlinked' = unlinked \cup d.unlinked \cup Range(temp_files)
                               /\ Fail("download", ToolOutput(
                                      <<"Error downloading image from ">> \o img_source
                                          \o <<": ", outcome>>, <<>>))
                               /\ UNCHANGED <<temp_files, resolved_images>>
                          ELSE /\ files' = d.fs
                               /\ unlinked' = unlinked \cup d.unlinked
                               /\ temp_files' = IF temp_file # None
                                                THEN Append(temp_files, temp_file)
                                                ELSE temp_files
                               /\ resolved_images' = Append(resolved_images, d.path)
                               /\ pc' = IF last THEN "validate" ELSE "resolve"
                               /\ UNCHANGED <<returned, raised>>
           ELSE LET local_path == LocalPath(img_source)
                    temp_file == TempFileOf(img_source, local_path)
                IN  /\ temp_files' = IF temp_file # None
                                     THEN Append(temp_files, temp_file)
                                     ELSE temp_files
                    /\ resolved_images' = Append(resolved_images, local_path)
                    /\ pc' = IF last THEN "validate" ELSE "resolve"
                    /\ UNCHANGED <<files, made, unlinked, returned, raised>>

\* the validation loop left out
Missing_none(fs, resolved) == {}

\* the resolved images that os.path.isfile rejects, as positions
Missing(fs, resolved) == {k \in 1..Len(resolved) : ~IsFile(fs, resolved[k])}

\* the cleanup of line 269 executed whether or not an image is missing
FilesAfterValidate_eager(fs, tfs, resolved) == _cleanup_temp_files(fs, tfs)

\* lines 267-270: the file system the validation loop leaves
FilesAfterValidate(fs, tfs, resolved) ==
    IF Missing(fs, resolved) # {} THEN _cleanup_temp_files(fs, tfs) ELSE fs

\* lines 266-270
Validate ==
    /\ pc = "validate"
    /\ UNCHANGED <<args, which, image_sources, temp_files, resolved_images, cmd, result,
                   image_path, mime_type, made, runs, finished, written, viewer, direct>>
    /\ files' = FilesAfterValidate(files, temp_files, resolved_images)
    /\ IF Missing(files, resolved_images) # {}
       THEN /\ unlinked' = unlinked \cup Range(temp_files)
            /\ Return(ToolOutput(<<"Error: input image not found: ">>
                   \o resolved_images[Min(Missing(files, resolved_images))], <<>>))
       ELSE /\ pc' = "build"
            /\ UNCHANGED <<unlinked, returned, raised>>

\* lines 272-298
Build ==
    /\ pc = "build"
    /\ cmd' = BuildCmd(args, resolved_images)
    /\ pc' = "run"
    /\ UNCHANGED <<args, which, files, image_sources, temp_files, resolved_images, result,
                   image_path, mime_type, returned, raised, made, unlinked, runs, finished,
                   written, viewer, direct>>

\* line 302: subprocess.run is entered
StartBinary ==
    /\ pc = "run"
    /\ runs' = runs + 1
    /\ pc' = "running"
    /\ UNCHANGED <<args, which, files, locals, returned, raised, made, unlinked, finished,
                   written, viewer, direct>>

\* what the binary prints on success: nothing, text without a confirmation, the
\* confirmation line, variants of it in case, spacing, extension and line breaks
StdoutSamples ==
    { <<>>,
      <<"x", "\n">>,
      <<"Saved to: ", "/o", ".", "png", "\n">>,
      <<"x", "\n", "SAVED TO: ", " ", "/o", ".", "JPG">>,
      <<"Saved to: ", "/o", ".", "txt">>,
      <<"Saved to: ", "\n", "/o", ".", "png">>,
      <<"Saved to: ", "/o", ".", "png", " ", "x", ".", "png">>,
      <<"Saved to: ", ".", "png">>,
      <<"Saved to: ", "/o", ".", "png", "x">>,
      <<"Saved to: ", "x", "\n", "Saved to: ", "/o", ".", "png">> }

RunOutcome(kind, returncode, stdout, stderr, out, readable) ==
    [kind |-> kind, returncode |-> returncode, stdout |-> stdout, stderr |-> stderr,
     out |-> out, readable |-> readable]

\* how subprocess.run(cmd, timeout=300) can end: TimeoutExpired, another exception
\* (the binary could not be launched), or a CompletedProcess; the binary
\* may have written an image, readable or not
RunOutcomes ==
    {RunOutcome("timeout", -1, <<>>, <<>>, None, TRUE),
     RunOutcome("error", -1, <<>>, <<>>, None, TRUE)}
    \cup {RunOutcome("completed", 1, so, se, w, TRUE) :
            so \in {<<>>, <<"Saved to: ", "/o", ".", "png", "\n">>},
            se \in {<<>>, <<"boom">>},
            w \in {None, <<"/o", ".", "png">>}}
    \cup {RunOutcome("completed", 0, so, <<>>, w[1], w[2]) :
            so \in StdoutSamples,
            w \in {<<None, TRUE>>, << <<"/o", ".", "png">>, TRUE >>,
                   << <<"/o", ".", "png">>, FALSE >>, << <<"/o", ".", "JPG">>, TRUE >>}}

\* a timeout starts the binary again
PcAfterRun_retry(kind) ==
    IF kind = "completed" THEN "check" ELSE IF kind = "timeout" THEN "run" ELSE "done"

\* lines 308-319: where the call goes when subprocess.run has ended
PcAfterRun(kind) == IF kind = "completed" THEN "check" ELSE "done"

\* lines 302-319
FinishBinary ==
    /\ pc = "running"
    /\ finished' = finished + 1
    /\ unlinked' = unlinked \cup Range(temp_files)
    /\ UNCHANGED <<args, which, image_sources, temp_files, resolved_images, cmd, image_path,
                   mime_type, made, runs, viewer, direct>>
    /\ \E o \in RunOutcomes :
          /\ written' = o.out
          /\ files' = _cleanup_temp_files(
                 IF o.out # None THEN WriteFile(files, o.out, File("image", o.readable))
                 ELSE files, temp_files)
          /\ IF o.kind = "completed"
             THEN /\ result' = [returncode |-> o.returncode, stdout |-> o.stdout,
                                stderr |-> o.stderr]
                  /\ pc' = PcAfterRun(o.kind)
                  /\ UNCHANGED <<returned, raised>>
             ELSE /\ UNCHANGED result
                  /\ IF Catches("run")
                     THEN /\ returned' = Append(returned, ToolOutput(
                                 IF o.kind = "timeout"
                                 THEN <<"Error: Image generation timed out after 5 minutes. ...">>
                                 ELSE <<"Error running imagemage: ", "e">>, <<>>))
                          /\ pc' = PcAfterRun(o.kind)
                          /\ raised' = raised
                     ELSE Escape

\* only a negative return code (death by signal) counts as a failure
ReturnCodeFailed_signal(returncode) == returncode < 0

\* line 322
ReturnCodeFailed(returncode) == returncode # 0

\* the viewer is opened whatever auto_open says
ShouldOpen_always(a) == TRUE

\* line 349
ShouldOpen(a) == a.auto_open

\* lines 321-346
CheckResult ==
    /\ pc = "check"
    /\ UNCHANGED <<args, which, files, image_sources, temp_files, resolved_images, cmd,
                   result, made, unlinked, runs, finished, written, viewer, direct>>
    /\ IF ReturnCodeFailed(result.returncode)
       THEN /\ Return(ToolOutput(<<"Error: ">> \o
                   (IF result.stderr # <<>> THEN result.stderr
                    ELSE IF result.stdout # <<>> THEN result.stdout
                    ELSE <<"Unknown error">>), <<>>))
            /\ UNCHANGED <<image_path, mime_type>>
       ELSE LET match == ReSearch(result.stdout)
            IN  IF match = None
                THEN /\ Return(ToolOutput(
                          <<"Image may have been generated but could not find output path:",
                            "\n">> \o result.stdout, <<>>))
                     /\ UNCHANGED <<image_path, mime_type>>
                ELSE /\ image_path' = Strip(match[1])
                     /\ mime_type' = MimeType(Lower(match[2]))
                     /\ pc' = IF ShouldOpen(args) THEN "open" ELSE "load"
                     /\ UNCHANGED <<returned, raised>>

\* lines 348-350 and 91-108: Popen(["xdg-open", image_path]) starts the viewer or raises
OpenViewer ==
    /\ pc = "open"
    /\ UNCHANGED <<args, which, files, locals, made, unlinked, runs, finished, written,
                   direct>>
    /\ \E ok \in BOOLEAN :
          /\ viewer' = Append(viewer, [path |-> image_path, ok |-> ok])
          /\ IF ok \/ Catches("viewer")
             THEN /\ pc' = "load"
                  /\ UNCHANGED <<returned, raised>>
             ELSE Escape

\* open(image_path, "rb") and read() succeed
CanRead(fs, p) == p \in DOMAIN fs /\ fs[p].readable

\* lines 352-369
Load ==
    /\ pc = "load"
    /\ UNCHANGED <<args, which, files, locals, made, unlinked, runs, finished, written,
                   viewer, direct>>
    /\ IF CanRead(files, image_path)
       THEN Return(ToolOutput(<<"Generated image saved to: ">> \o image_path,
                              <<Attachment(files[image_path].bytes, mime_type)>>))
       ELSE Fail("load", ToolOutput(<<"Image saved to ">> \o image_path
                    \o <<" but failed to load for preview: ", "e">>, <<>>))

Next ==
    \/ Enter
    \/ ResolveOne
    \/ Validate
    \/ Build
    \/ StartBinary
    \/ FinishBinary
    \/ CheckResult
    \/ OpenViewer
    \/ Load

\* one call of generate_image
Spec == Init /\ [][Next]_vars

\* ------------------------------------------------ the command builder alone
CmdArgs ==
    {Args(mode, <<>>, output_path, aspect_ratio, resolution, model, style, TRUE) :
        mode \in {<<"edit">>, <<"generate">>},
        output_path \in {<<>>, <<"/out">>},
        aspect_ratio \in {<<>>, <<"16:9">>},
        resolution \in {<<>>, <<"1K">>, <<"2K">>, <<"4K">>},
        model \in {<<"pro">>, <<"flash">>, <<>>, <<"FLASH">>},
        style \in {<<>>, <<"s">>}}

\* the call has resolved its inputs (edit mode) or has none (generate mode)
InitCmd ==
    /\ args \in CmdArgs
    /\ which = TRUE
    /\ files = [p \in LocalFiles |-> File("local", TRUE)]
    /\ pc = "build"
    /\ resolved_images \in IF args.mode = <<"edit">>
                           THEN { << <<"a">> >>, << <<"a">>, <<"b">> >> }
                           ELSE { <<>> }
    /\ image_sources = resolved_images
    /\ temp_files = <<>>
    /\ cmd = <<>>
    /\ result = NoResult
    /\ image_path = None
    /\ mime_type = ""
    /\ InitGhost
    /\ url = <<>>
    /\ content_type = <<>>
    /\ tmp_name = None

NextCmd == Build

SpecCmd == InitCmd /\ [][NextCmd]_vars

\* ------------------------------------------- _download_url_to_temp alone
UrlTok == {"/", ".", "?", "#", "png", "JPG", "txt"}
CtTok == {"image/jpeg", "image/png", "text/html"}

InitDownload ==
    /\ url \in {<<"http://">> \o u : u \in SeqsUpTo(UrlTok, MaxUrl)}
    /\ content_type \in SeqsUpTo(CtTok, MaxCt)
    /\ tmp_name = None
    /\ args = Args(<<"generate">>, <<>>, <<>>, <<>>, <<>>, <<"pro">>, <<>>, TRUE)
    /\ which = TRUE
    /\ files = <<>>
    /\ pc = "download"
    /\ InitLocals
    /\ InitGhost

\* a call _download_url_to_temp(url)
Download ==
    /\ pc = "download"
    /\ \E outcome \in DownloadOutcomes :
          LET d == _download_url_to_temp(url, content_type, outcome, files, made)
          IN  /\ tmp_name' = d.path
              /\ files' = d.fs
              /\ made' = d.made
              /\ unlinked' = unlinked \cup d.unlinked
              /\ pc' = IF d.path = None THEN "download raised" ELSE "download returned"
    /\ UNCHANGED <<args, which, locals, returned, raised, runs, finished, written, viewer,
                   url, content_type>>

NextDownload == Download

SpecDownload == InitDownload /\ [][NextDownload]_vars

\* ================================================================== claims

\* C1: every temporary file created for a downloaded input has been removed when
\* generate_image returns, on every return path.
C1_TempFilesRemovedOnReturn ==
    pc = "done" => \A t \in made : t \notin DOMAIN files

\* C2: the result carries an attachment if and only if the binary exited with code
\* 0, its standard output contained a "Saved to: <path>.<png|jpg|jpeg|webp>"
\* confirmation and the file at the extracted path could be read; then there is
\* exactly one attachment, with that file's bytes, and the text is "Generated image
\* saved to: <path>".  Every other result has no attachment.
C2_AttachmentIffSavedAndReadable ==
    (pc = "done" /\ Len(returned) = 1) =>
        LET out == returned[1]
            so == result.stdout
            spans == {se \in (1..Len(so)) \X (1..Len(so)) :
                        /\ se[2] >= se[1] + 3
                        /\ so[se[1]] \in {"Saved to: ", "SAVED TO: "}
                        /\ so[se[2] - 1] = "."
                        /\ so[se[2]] \in {"png", "PNG", "jpg", "JPG", "jpeg", "webp"}
                        /\ \A k \in (se[1] + 1)..se[2] : so[k] # "\n"}
            ok == /\ finished = 1
                  /\ result.returncode = 0
                  /\ spans # {}
                  /\ image_path \in DOMAIN files
                  /\ files[image_path].readable
        IN  /\ (out.attachments # <<>>) <=> ok
            /\ ok => /\ \E se \in spans : image_path = Strip(SubSeq(so, se[1] + 1, se[2]))
                     /\ Len(out.attachments) = 1
                     /\ out.attachments[1].content = files[image_path].bytes
                     /\ out.text = <<"Generated image saved to: ">> \o image_path

C2_Witness ==
    /\ pc = "done"
    /\ Len(returned) = 1
    /\ Len(returned[1].attachments) = 1
    /\ result.stdout = <<"x", "\n", "SAVED TO: ", " ", "/o", ".", "JPG">>
    /\ returned[1].text = <<"Generated image saved to: ", "/o", ".", "JPG">>

\* C3: within one call the binary is started at most once, also after a timeout, a
\* launch error, a non-zero exit code or an unrecognised output.
C3_BinaryStartedAtMostOnce ==
    /\ runs <= 1
    /\ finished <= runs
    /\ pc = "done" => finished = runs

C3_Witness ==
    /\ pc = "done"
    /\ runs = 1
    /\ Len(returned) = 1
    /\ returned[1].text = <<"Error: Image generation timed out after 5 minutes. ...">>

\* C4: the command line contains exactly one of the two model-tier flags:
\* "--frugal" iff model == "flash" (the resolution is then not passed), otherwise
\* "-r" followed by the resolution, or by "2K" when the resolution is empty.
C4_ExactlyOneTierFlag ==
    pc = "run" =>
        LET frugal == {k \in 1..Len(cmd) : cmd[k] = <<"--frugal">>}
            r == {k \in 1..Len(cmd) : cmd[k] = <<"-r">>}
        IN  /\ Cardinality(frugal) + Cardinality(r) = 1
            /\ (frugal # {}) <=> (args.model = <<"flash">>)
            /\ args.model = <<"flash">> =>
                   \A k \in 1..Len(cmd) : cmd[k] \notin {<<"1K">>, <<"2K">>, <<"4K">>}
            /\ \A k \in r : /\ k < Len(cmd)
                            /\ cmd[k + 1] = IF args.resolution = <<>> THEN <<"2K">>
                                            ELSE args.resolution

C4_Witness ==
    /\ pc = "run"
    /\ args.model = <<"flash">>
    /\ args.resolution = <<"4K">>
    /\ args.mode = <<"edit">>
    /\ <<"--frugal">> \in Range(cmd)

\* C5: the viewer is launched at most once, and only when auto_open is true, the
\* binary exited with code 0 and an output path was extracted; a failing launch
\* leaves the returned result what it is after a successful one.
C5_ViewerOnlyWhenAsked ==
    /\ Len(viewer) <= 1
    /\ viewer # <<>> =>
          /\ args.auto_open
          /\ finished = 1
          /\ result.returncode = 0
          /\ image_path # None
          /\ viewer[1].path = image_path
    /\ (pc = "done" /\ viewer # <<>>) =>
          /\ ~raised
          /\ returned =
               << IF image_path \in DOMAIN files /\ files[image_path].readable
                  THEN [text |-> <<"Generated image saved to: ">> \o image_path,
                        attachments |-> <<[content |-> files[image_path].bytes,
                                           type |-> mime_type]>>]
                  ELSE [text |-> <<"Image saved to ">> \o image_path
                                   \o <<" but failed to load for preview: ", "e">>,
                        attachments |-> <<>>] >>

C5_Witness ==
    /\ pc = "done"
    /\ Len(viewer) = 1
    /\ ~viewer[1].ok
    /\ Len(returned) = 1
    /\ returned[1].attachments # <<>>

\* C6: in edit mode the binary is not started unless every input image was
\* resolved to an existing local file; an empty input_images, one of commas and
\* whitespace only, a failed download or a missing file ends in an error message.
C6_EditRunsOnlyOnResolvedInputs ==
    args.mode = <<"edit">> =>
        /\ (\A k \in 1..Len(args.input_images) : args.input_images[k] \in {",", " "})
              => runs = 0
        /\ runs >= 1 =>
              /\ image_sources # <<>>
              /\ Len(resolved_images) = Len(image_sources)
              /\ \A k \in 1..Len(image_sources) :
                    IF image_sources[k][1] \in {"http://", "https://"}
                    THEN resolved_images[k] \in made
                    ELSE resolved_images[k] \in DOMAIN files
        /\ pc = "running" => \A k \in 1..Len(resolved_images) :
                                  resolved_images[k] \in DOMAIN files
        /\ (pc = "done" /\ runs = 0 /\ which) =>
              /\ Len(returned) = 1
              /\ returned[1].attachments = <<>>
              /\ returned[1].text[1] \in
                    {"Error: edit mode requires input_images parameter with path(s) to image(s)",
                     "Error: edit mode requires at least one image path or URL",
                     "Error downloading image from ",
                     "Error: input image not found: "}

C6_Witness ==
    /\ args.mode = <<"edit">>
    /\ pc = "done"
    /\ runs = 0
    /\ Len(image_sources) = 2
    /\ Len(resolved_images) = 2
    /\ returned[1].text[1] = "Error: input image not found: "

\* C7: where the binary is started, no temporary file of the command line is
\* deleted between the end of input resolution and the end of the subprocess run.
C7_TempFilesKeptUntilBinaryEnds ==
    /\ pc \in {"build", "run", "running"} =>
          \A k \in 1..Len(temp_files) :
              temp_files[k] \in DOMAIN files /\ temp_files[k] \notin unlinked
    /\ pc \in {"run", "running"} =>
          /\ Range(temp_files) \subseteq Range(cmd)
          /\ \A t \in Range(cmd) \cap made : t \in DOMAIN files

C7_Witness ==
    /\ pc = "running"
    /\ Len(temp_files) = 2
    /\ Range(temp_files) \subseteq Range(cmd)

\* C8: _download_url_to_temp keeps the extension of the URL: when the URL path
\* (query string and fragment removed, lower-cased) ends in .png, .jpg, .jpeg,
\* .webp, .gif or .bmp the returned file has that suffix; the Content-Type decides
\* only when the URL has no recognised extension, and the suffix is .png when
\* neither gives one.
C8_UrlExtensionPreserved ==
    pc = "download returned" =>
        LET q == IF \E k \in 1..Len(url) : url[k] \in {"?", "#"}
                 THEN SubSeq(url, 1, Min({k \in 1..Len(url) : url[k] \in {"?", "#"}}) - 1)
                 ELSE url
            n == Len(q)
            last == IF n >= 1 THEN (IF q[n] = "JPG" THEN "jpg" ELSE q[n]) ELSE ""
            \* the last path component has a name before its last dot
            recognised == /\ n >= 3
                          /\ q[n - 1] = "."
                          /\ last \in {"png", "jpg", "jpeg", "webp", "gif", "bmp"}
                          /\ \E j \in 2..(n - 2) :
                                /\ q[j] \notin {".", "/"}
                                /\ \A i \in j..(n - 2) : q[i] # "/"
            suffix == SubSeq(tmp_name, 2, Len(tmp_name))
        IN  IF recognised
            THEN suffix = <<".", last>>
            ELSE suffix = IF "image/jpeg" \in Range(content_type) THEN <<".", "jpg">>
                          ELSE <<".", "png">>

\* C9: no exception leaves generate_image: whatever fails, the call ends by
\* returning exactly one ToolOutput with a text.
C9_NoExceptionEscapes ==
    /\ ~raised
    /\ Len(returned) <= 1
    /\ pc = "done" => /\ Len(returned) = 1
                      /\ returned[1].text # <<>>
    /\ returned # <<>> => pc = "done"

C9_Witness ==
    /\ pc = "done"
    /\ Len(returned) = 1
    /\ returned[1].text[1] = "Error downloading image from "
    /\ Len(resolved_images) = 1

\* C10: cleanup deletes only files the call downloaded: a local path or file://
\* input is never in the temp-file list and never deleted, and neither is the
\* image the binary wrote.
C10_OnlyDownloadsDeleted ==
    /\ [](/\ \A k \in 1..Len(image_sources) :
                ~IsRemote(image_sources[k]) =>
                    /\ LocalPath(image_sources[k]) \notin Range(temp_files)
                    /\ LocalPath(image_sources[k]) \notin unlinked
          /\ Range(temp_files) \subseteq made
          /\ written \notin unlinked)
    /\ [][/\ \A k \in 1..Len(image_sources) :
                (~IsRemote(image_sources[k]) /\ LocalPath(image_sources[k]) \in DOMAIN files)
                    => LocalPath(image_sources[k]) \in DOMAIN files'
          /\ written' # None => written' \in DOMAIN files']_vars

C10_Witness ==
    /\ pc = "done"
    /\ finished = 1
    /\ written # None
    /\ temp_files # <<>>
    /\ Range(temp_files) \subseteq unlinked
    /\ \E k \in 1..Len(image_sources) : image_sources[k] = <<"a">>
    /\ <<"a">> \in DOMAIN files
    /\ written \in DOMAIN files

====
